---- MODULE Spec2Model ----
(***************************************************************************)
(* The /simulate route of the three Flask backends of FromBitToQubit:      *)
(*   quantum_backend.py         exec + Qiskit Statevector                  *)
(*   quantum_backend_simple.py  substring classifier + hard-coded states   *)
(*   quantum_backend_docker.py  Qiskit when importable, classifier if not  *)
(*                                                                         *)
(* Numbers.  The responses carry floats.  The model carries the reals they *)
(* stand for, exactly: an amplitude component is n / sqrt(2)^rt (Root2), a *)
(* probability is n / 2^ex (Dyadic), both kept in lowest terms so that     *)
(* equality of records is equality of values.  Rounding of the last bit of *)
(* a double (1/math.sqrt(2) squared is 1 ulp away from 0.5) is below every *)
(* tolerance the specification states and is not modelled.                 *)
(*                                                                         *)
(* Requests.  Spec serves bodies whose programs build circuits (and the    *)
(* bodies without code); SpecShared adds a program that assigns to the     *)
(* QuantumCircuit class, the one object exec shares between requests.      *)
(***************************************************************************)
EXTENDS Integers, Sequences, FiniteSets, TLC

VARIABLES backend, QISKIT_AVAILABLE, QuantumCircuit, pc, request, circuit,
          final_state, response

vars == <<backend, QISKIT_AVAILABLE, QuantumCircuit, pc, request, circuit,
          final_state, response>>

(* ---------------------------------------------------------------- bounds *)

\* Largest qubit count of the enumerated circuits.
MaxQubits == 2

\* Largest number of gate lines of the enumerated circuits.
MaxGates == 2

(* --------------------------------------------------------------- numbers *)

RECURSIVE Pow2(_)
Pow2(k) == IF k = 0 THEN 1 ELSE 2 * Pow2(k - 1)

\* n / 2^ex in lowest terms.
RECURSIVE Dyadic(_, _)
Dyadic(n, ex) ==
    IF n = 0 THEN [num |-> 0, ex |-> 0]
    ELSE IF ex > 0 /\ n % 2 = 0 THEN Dyadic(n \div 2, ex - 1)
    ELSE [num |-> n, ex |-> ex]

\* n / sqrt(2)^rt in lowest terms.
RECURSIVE Root2(_, _)
Root2(n, rt) ==
    IF n = 0 THEN [num |-> 0, rt |-> 0]
    ELSE IF rt > 1 /\ n % 2 = 0 THEN Root2(n \div 2, rt - 2)
    ELSE [num |-> n, rt |-> rt]

Max(a, b) == IF a >= b THEN a ELSE b

\* a + b on dyadic rationals.  The operands and the common exponent are bound
\* over one-element sets so that each is computed once.
DyAdd(a, b) ==
    CHOOSE r \in {Dyadic(x.num * Pow2(m - x.ex) + y.num * Pow2(m - y.ex), m) :
                    <<x, y, m>> \in {<<a, b, Max(a.ex, b.ex)>>}} : TRUE

\* x ** 2 of an amplitude component: (n / sqrt(2)^rt)^2 = n^2 / 2^rt.
Sq(x) == Dyadic(x.num * x.num, x.rt)

RECURSIVE DySum(_)
DySum(s) == IF s = <<>> THEN Dyadic(0, 0) ELSE DyAdd(Head(s), DySum(Tail(s)))

DyOne == Dyadic(1, 0)
DyZero == Dyadic(0, 0)
DyHalf == Dyadic(1, 1)

(* ------------------------------------------------------ submitted code *)

\* Gate lines the enumerated circuits are built from: circ.h(q), circ.x(q),
\* circ.cx(c, t).  Indices run to n inclusive, so that index n (out of range
\* for n qubits) and c = t are among them.
Gates(n) ==
    [name : {"h", "x"}, qubits : {<<q>> : q \in 0..n}]
    \cup [name : {"cx"}, qubits : {<<c, t>> : c \in 0..n, t \in 0..n}]

\* Comment lines put in front of the enumerated circuits ("" is none).
EnumHeaders == {"", "# Bell State", "# GHZ State"}

Circ(header, n, ops) == [kind |-> "circuit", header |-> header, n |-> n, ops |-> ops]

H(q) == [name |-> "h", qubits |-> <<q>>]
X(q) == [name |-> "x", qubits |-> <<q>>]
CX(c, t) == [name |-> "cx", qubits |-> <<c, t>>]

\* circ.cp(theta, c, t) with theta = eighths * pi/4, and circ.swap(a, b).
CP(eighths, c, t) == [name |-> "cp", qubits |-> <<c, t>>, eighths |-> eighths]
SWAP(a, b) == [name |-> "swap", qubits |-> <<a, b>>]

BellOps == <<H(0), CX(0, 1)>>
GHZOps == <<H(0), CX(0, 1), CX(0, 2)>>
SuperpositionOps == <<H(0)>>
XGateOps == <<X(0)>>

\* The four programs of test_backend.py / test_simple_backend.py / test_docker.py.
TestPrograms ==
    { Circ("# Bell State", 2, BellOps), Circ("# GHZ State", 3, GHZOps),
      Circ("# Superposition", 1, SuperpositionOps), Circ("# X Gate", 1, XGateOps),
      Circ("", 1, SuperpositionOps) }

\* The four programs every /example_circuits returns.
ExamplePrograms ==
    { Circ("# Bell State (Entanglement)", 2, BellOps),
      Circ("# GHZ State (3-qubit entanglement)", 3, GHZOps),
      Circ("# Single qubit superposition", 1, SuperpositionOps),
      Circ("# Simple X gate (bit flip)", 1, XGateOps) }

\* Section 8 of the specification, depth computation: two single-qubit gates on
\* disjoint qubits, then one two-qubit gate on both.
DepthProgram == Circ("", 2, <<H(0), H(1), CX(0, 1)>>)

\* Section 2 of the specification: the configured maximum qubit count, default
\* 24.  No source file defines or reads such a setting.
max_qubits == 24

\* A circuit of one qubit more than the maximum, without operations:
\* "circ = QuantumCircuit(25)".
OversizedProgram == Circ("", max_qubits + 1, <<>>)

\* test_docker.py step 6, and a program that runs but binds no circuit.
InvalidProgram == [kind |-> "syntax_error", header |-> "", n |-> 0, ops |-> <<>>]
NoCircuitProgram == [kind |-> "no_circuit", header |-> "", n |-> 0, ops |-> <<>>]

\* The quantum_fourier_transform example of quantum_backend.py.
QFTProgram ==
    Circ("# QFT on 3 qubits", 3,
         <<H(0), CP(2, 0, 1), CP(1, 0, 2), H(1), CP(2, 1, 2), H(2), SWAP(0, 2)>>)

\* The quantum_fourier_transform example of quantum_backend_docker.py: its first
\* statement is "import numpy as np".
QFTImportProgram ==
    [kind |-> "import", header |-> "# QFT on 3 qubits", n |-> 3, ops |-> <<>>]

\* A program that assigns to an attribute of the class it is handed, then binds
\* a circuit: "QuantumCircuit.h = QuantumCircuit.x" and "circ = QuantumCircuit(1)".
\* Attribute assignment needs no builtin.
PatchProgram == [kind |-> "patch", header |-> "", n |-> 1, ops |-> <<>>]

\* A program that never ends: "while True:" / "    pass".  It needs no builtin.
LoopProgram == [kind |-> "loop", header |-> "", n |-> 0, ops |-> <<>>]

\* exec(p, ...) returns (or raises): p is not a program that runs for ever.
Terminates(p) == p.kind # "loop"

\* The programs taken from the tests, the examples and the specification.
NamedPrograms ==
    TestPrograms \cup ExamplePrograms
        \cup {DepthProgram, OversizedProgram, QFTProgram, QFTImportProgram, InvalidProgram,
              NoCircuitProgram}

\* The body of POST /simulate as request.get_json() meets it: bytes that parse
\* as JSON or not, the Python type of the parsed value, and its members (the
\* keys of a dict, the elements of a list).  program is the value under the
\* key qiskit_code when there is one.
Body(parses, type, members, p) ==
    [parses |-> parses, type |-> type, members |-> members, program |-> p]

\* {"qiskit_code": <text of p>}
WithCode(p) == Body(TRUE, "dict", {"qiskit_code"}, p)

\* {"code": "x = 1"}: a JSON object without the key.
WithoutCode == Body(TRUE, "dict", {"code"}, NoCircuitProgram)

\* {}, null, ["qiskit_code"], and a body of zero bytes sent as application/json.
EmptyObject == Body(TRUE, "dict", {}, NoCircuitProgram)
NullBody == Body(TRUE, "NoneType", {}, NoCircuitProgram)
ListBody == Body(TRUE, "list", {"qiskit_code"}, NoCircuitProgram)
ZeroBytes == Body(FALSE, "NoneType", {}, NoCircuitProgram)

\* The bodies that are not a JSON object with the key qiskit_code.
BodiesWithoutCode == {WithoutCode, EmptyObject, NullBody, ListBody, ZeroBytes}

\* The body is a JSON object that has the key qiskit_code.
HasCode(body) == body.parses /\ body.type = "dict" /\ "qiskit_code" \in body.members

\* Python's truth value of the parsed body: None and empty containers are false.
Truthy(data) == data.type # "NoneType" /\ data.members # {}

GateLine(g) ==
    "circ." \o g.name \o "("
    \o (IF g.name = "cp"
        THEN (IF g.eighths = 2 THEN "np.pi/2, " ELSE "np.pi/4, ") ELSE "")
    \o (IF Len(g.qubits) = 1 THEN ToString(g.qubits[1])
        ELSE ToString(g.qubits[1]) \o ", " \o ToString(g.qubits[2]))
    \o ")"

RECURSIVE GateLines(_)
GateLines(ops) ==
    IF ops = <<>> THEN "" ELSE "\n" \o GateLine(Head(ops)) \o GateLines(Tail(ops))

\* The text of data['qiskit_code'].
SourceText(p) ==
    CASE p.kind = "syntax_error" -> "invalid python code"
      [] p.kind = "no_circuit" -> "x = 1"
      [] p.kind = "import" ->
           p.header \o "\nimport numpy as np\ncirc = QuantumCircuit(3)\ncirc.h(0)"
           \o "\ncirc.cp(np.pi/2, 0, 1)\ncirc.cp(np.pi/4, 0, 2)\ncirc.h(1)"
           \o "\ncirc.cp(np.pi/2, 1, 2)\ncirc.h(2)\ncirc.swap(0, 2)"
      [] p.kind = "loop" -> "while True:\n    pass"
      [] p.kind = "patch" ->
           "QuantumCircuit.h = QuantumCircuit.x\ncirc = QuantumCircuit(1)"
      [] OTHER ->
           (IF p.header = "" THEN "" ELSE p.header \o "\n")
           \o "circ = QuantumCircuit(" \o ToString(p.n) \o ")"
           \o GateLines(p.ops)

\* The letters str.lower() changes (ASCII).
LowerOf ==
    ("A" :> "a") @@ ("B" :> "b") @@ ("C" :> "c") @@ ("D" :> "d") @@ ("E" :> "e") @@ ("F" :> "f")
    @@ ("G" :> "g") @@ ("H" :> "h") @@ ("I" :> "i") @@ ("J" :> "j") @@ ("K" :> "k") @@ ("L" :> "l")
    @@ ("M" :> "m") @@ ("N" :> "n") @@ ("O" :> "o") @@ ("P" :> "p") @@ ("Q" :> "q") @@ ("R" :> "r")
    @@ ("S" :> "s") @@ ("T" :> "t") @@ ("U" :> "u") @@ ("V" :> "v") @@ ("W" :> "w") @@ ("X" :> "x")
    @@ ("Y" :> "y") @@ ("Z" :> "z")

LowerChar(c) == IF c \in DOMAIN LowerOf THEN LowerOf[c] ELSE c

\* The characters lo..hi of s through LowerChar, by halves.  The midpoint and
\* the text are bound over one-element sets so that each is computed once.
RECURSIVE lower_range(_, _, _)
lower_range(s, lo, hi) ==
    IF lo > hi THEN ""
    ELSE IF lo = hi THEN LowerChar(SubSeq(s, lo, lo))
    ELSE CHOOSE t \in {lower_range(s, lo, mid) \o lower_range(s, mid + 1, hi) :
                         mid \in {(lo + hi) \div 2}} : TRUE

\* str.lower(): every character through LowerChar.
lower(s) == CHOOSE t \in {lower_range(v, 1, Len(v)) : v \in {s}} : TRUE

\* Python's  sub in text  on strings.
In(sub, text) ==
    \E t \in {text} :
        \E i \in 1..(Len(t) - Len(sub) + 1) : SubSeq(t, i, i + Len(sub) - 1) = sub

(* ------------------------------------------ quantum_backend_simple.py *)

Inv2 == Root2(1, 1)     \* 1/math.sqrt(2)
R0 == Root2(0, 0)       \* 0.0
R1 == Root2(1, 0)       \* 1.0

Marginal(q, p0, p1) == [qubit |-> q, prob_0 |-> p0, prob_1 |-> p1]

\* [sv[0]**2 + sv[1]**2 for sv in statevector]
SquaredMagnitudes(statevector) ==
    CHOOSE probabilities \in
        {[i \in 1..Len(sv) |-> DyAdd(Sq(sv[i][1]), Sq(sv[i][2]))] :
            sv \in {statevector}} : TRUE

\* The if/elif chain of simulate_simple_circuit(circuit_type): the statevector
\* and the marginals written out for each circuit type.
simple_state(circuit_type) ==
    CASE circuit_type = "bell_state" ->
           [num_qubits |-> 2,
            statevector |-> <<<<Inv2, R0>>, <<R0, R0>>, <<R0, R0>>, <<Inv2, R0>>>>,
            marginal_probabilities |->
                <<Marginal(0, DyHalf, DyHalf), Marginal(1, DyHalf, DyHalf)>>]
      [] circuit_type = "ghz_state" ->
           [num_qubits |-> 3,
            statevector |-> <<<<Inv2, R0>>, <<R0, R0>>, <<R0, R0>>, <<R0, R0>>,
                              <<R0, R0>>, <<R0, R0>>, <<R0, R0>>, <<Inv2, R0>>>>,
            marginal_probabilities |->
                <<Marginal(0, DyHalf, DyHalf), Marginal(1, DyHalf, DyHalf),
                  Marginal(2, DyHalf, DyHalf)>>]
      [] circuit_type = "superposition" ->
           [num_qubits |-> 1,
            statevector |-> <<<<Inv2, R0>>, <<Inv2, R0>>>>,
            marginal_probabilities |-> <<Marginal(0, DyHalf, DyHalf)>>]
      [] circuit_type = "x_gate" ->
           [num_qubits |-> 1,
            statevector |-> <<<<R0, R0>>, <<R1, R0>>>>,
            marginal_probabilities |-> <<Marginal(0, DyZero, DyOne)>>]
      [] OTHER ->
           \* num_qubits = 2;  [[1.0, 0.0]] + [[0.0, 0.0]] * (2**num_qubits - 1)
           [num_qubits |-> 2,
            statevector |-> <<<<R1, R0>>>> \o [i \in 1..(Pow2(2) - 1) |-> <<R0, R0>>],
            marginal_probabilities |-> [i \in 1..2 |-> Marginal(i - 1, DyOne, DyZero)]]

\* simulate_simple_circuit(circuit_type) of quantum_backend_simple.py
simple_simulate_simple_circuit(circuit_type) ==
    CHOOSE result \in
        {[status |-> 200,
          success |-> TRUE,
          statevector |-> st.statevector,
          num_qubits |-> st.num_qubits,
          probabilities |-> SquaredMagnitudes(st.statevector),
          marginal_probabilities |-> st.marginal_probabilities,
          circuit_depth |-> 2,
          circuit_size |-> 2] : st \in {simple_state(circuit_type)}} : TRUE

\* Mutant of simple_classify: the superposition pattern keeps the capitals of
\* the constructor's name, which the lower-cased text never contains.
simple_classify_cased(qiskit_code) ==
    IF In("ghz", qiskit_code)
       \/ (In("quantumcircuit(3)", qiskit_code) /\ In("cx(0, 2)", qiskit_code))
    THEN "ghz_state"
    ELSE IF In("bell", qiskit_code)
            \/ (In("quantumcircuit(2)", qiskit_code) /\ In("h(0)", qiskit_code)
                /\ In("cx(0, 1)", qiskit_code))
    THEN "bell_state"
    ELSE IF In("h(0)", qiskit_code) /\ In("QuantumCircuit(1)", qiskit_code)
    THEN "superposition"
    ELSE IF In("x(0)", qiskit_code)
    THEN "x_gate"
    ELSE "default"

\* The if/elif chain of the /simulate route of quantum_backend_simple.py, on
\* the lower-cased text.
simple_classify(qiskit_code) ==
    IF In("ghz", qiskit_code)
       \/ (In("quantumcircuit(3)", qiskit_code) /\ In("cx(0, 2)", qiskit_code))
    THEN "ghz_state"
    ELSE IF In("bell", qiskit_code)
            \/ (In("quantumcircuit(2)", qiskit_code) /\ In("h(0)", qiskit_code)
                /\ In("cx(0, 1)", qiskit_code))
    THEN "bell_state"
    ELSE IF In("h(0)", qiskit_code) /\ In("quantumcircuit(1)", qiskit_code)
    THEN "superposition"
    ELSE IF In("x(0)", qiskit_code)
    THEN "x_gate"
    ELSE "default"

(* ------------------------------------------ quantum_backend_docker.py *)

\* The if/elif chain of simulate_simple_circuit(qiskit_code), on qiskit_code_lower.
docker_classify(qiskit_code_lower) ==
    IF In("bell", qiskit_code_lower)
       \/ (In("h(0)", qiskit_code_lower) /\ In("cx(0, 1)", qiskit_code_lower))
    THEN "bell_state"
    ELSE IF In("ghz", qiskit_code_lower)
            \/ (In("quantumcircuit(3)", qiskit_code_lower)
                /\ In("cx(0, 2)", qiskit_code_lower))
    THEN "ghz_state"
    ELSE IF In("h(0)", qiskit_code_lower) /\ In("quantumcircuit(1)", qiskit_code_lower)
    THEN "superposition"
    ELSE IF In("x(0)", qiskit_code_lower)
    THEN "x_gate"
    ELSE "default"

\* The branch bodies of simulate_simple_circuit(qiskit_code): the statevector
\* and the marginals written out for each circuit type.
docker_state(circuit_type) ==
    CASE circuit_type = "bell_state" ->
           [num_qubits |-> 2,
            statevector |-> <<<<Inv2, R0>>, <<R0, R0>>, <<R0, R0>>, <<Inv2, R0>>>>,
            marginal_probabilities |->
                <<Marginal(0, DyHalf, DyHalf), Marginal(1, DyHalf, DyHalf)>>]
      [] circuit_type = "ghz_state" ->
           [num_qubits |-> 3,
            statevector |-> <<<<Inv2, R0>>, <<R0, R0>>, <<R0, R0>>, <<R0, R0>>,
                              <<R0, R0>>, <<R0, R0>>, <<R0, R0>>, <<Inv2, R0>>>>,
            marginal_probabilities |->
                <<Marginal(0, DyHalf, DyHalf), Marginal(1, DyHalf, DyHalf),
                  Marginal(2, DyHalf, DyHalf)>>]
      [] circuit_type = "superposition" ->
           [num_qubits |-> 1,
            statevector |-> <<<<Inv2, R0>>, <<Inv2, R0>>>>,
            marginal_probabilities |-> <<Marginal(0, DyHalf, DyHalf)>>]
      [] circuit_type = "x_gate" ->
           [num_qubits |-> 1,
            statevector |-> <<<<R0, R0>>, <<R1, R0>>>>,
            marginal_probabilities |-> <<Marginal(0, DyZero, DyOne)>>]
      [] OTHER ->
           \* num_qubits = 2;  [[1.0, 0.0]] + [[0.0, 0.0]] * (2**num_qubits - 1)
           [num_qubits |-> 2,
            statevector |-> <<<<R1, R0>>>> \o [i \in 1..(Pow2(2) - 1) |-> <<R0, R0>>],
            marginal_probabilities |-> [i \in 1..2 |-> Marginal(i - 1, DyOne, DyZero)]]

\* simulate_simple_circuit(qiskit_code) of quantum_backend_docker.py
docker_simulate_simple_circuit(qiskit_code) ==
    CHOOSE result \in
        {[status |-> 200,
          success |-> TRUE,
          statevector |-> docker_state(circuit_type).statevector,
          num_qubits |-> docker_state(circuit_type).num_qubits,
          probabilities |-> SquaredMagnitudes(docker_state(circuit_type).statevector),
          marginal_probabilities |-> docker_state(circuit_type).marginal_probabilities,
          circuit_depth |-> 2,
          circuit_size |-> 2,
          simulation_type |-> "simple",
          circuit_type |-> circuit_type] :
            circuit_type \in {docker_classify(lower(qiskit_code))}} : TRUE

(* ------------------------------------------------- the Qiskit path *)

None == [none |-> TRUE]

\* The class qiskit.QuantumCircuit as imported: each method appends the gate of
\* its own name.
qiskit_QuantumCircuit ==
    [h |-> "h", x |-> "x", cx |-> "cx", cp |-> "cp", swap |-> "swap"]

\* safe_globals: the names the program sees.  'QuantumCircuit' is the module's
\* class object itself, not a copy; '__builtins__' is empty.
safe_globals(cls) == [QuantumCircuit |-> cls]

\* exec(qiskit_code, safe_globals, safe_locals): the program's statements run in
\* order.  QuantumCircuit(n) binds circ; circ.<name>(...) calls the method the
\* class has under that name; a gate call with an index outside range(n), or
\* with the same qubit twice, raises CircuitError and ends the execution;
\* 'invalid python code' does not compile; an import statement raises
\* ImportError, '__builtins__' being empty; an assignment to an attribute of
\* QuantumCircuit changes the class.  The result is the exception raised, or
\* safe_locals, and the class as the program leaves it.
exec(p, globals) ==
    LET cls == globals.QuantumCircuit IN
    CASE p.kind = "syntax_error" ->
           [raised |-> TRUE, error |-> "invalid syntax", safe_locals |-> <<>>,
            QuantumCircuit |-> cls]
      [] p.kind = "no_circuit" ->
           [raised |-> FALSE, error |-> "", safe_locals |-> <<>>,
            QuantumCircuit |-> cls]
      [] p.kind = "import" ->
           \* the import statement looks up __import__ in the empty __builtins__
           [raised |-> TRUE, error |-> "__import__ not found", safe_locals |-> <<>>,
            QuantumCircuit |-> cls]
      [] p.kind = "patch" ->
           [raised |-> FALSE, error |-> "",
            safe_locals |-> <<[num_qubits |-> p.n, data |-> <<>>]>>,
            QuantumCircuit |-> [cls EXCEPT !.h = cls.x]]
      [] OTHER ->
           LET bad(g) == \/ \E i \in 1..Len(g.qubits) : g.qubits[i] >= p.n
                         \/ (Len(g.qubits) = 2 /\ g.qubits[1] = g.qubits[2])
               fails == {i \in 1..Len(p.ops) : bad(p.ops[i])}
               data == [i \in 1..Len(p.ops) |->
                           [p.ops[i] EXCEPT !.name = cls[p.ops[i].name]]]
           IN  IF fails = {}
               THEN [raised |-> FALSE, error |-> "",
                     safe_locals |-> <<[num_qubits |-> p.n, data |-> data]>>,
                     QuantumCircuit |-> cls]
               ELSE LET g == p.ops[CHOOSE i \in fails : \A j \in fails : i <= j]
                    IN  [raised |-> TRUE,
                         error |-> IF \E i \in 1..Len(g.qubits) : g.qubits[i] >= p.n
                                   THEN "Index out of range"
                                   ELSE "duplicate qubit arguments",
                         safe_locals |-> <<>>,
                         QuantumCircuit |-> cls]

\* The loop over safe_locals.items(): the first QuantumCircuit, or None.
find_circuit(safe_locals) ==
    IF safe_locals = <<>> THEN None ELSE safe_locals[1]

\* (state_idx >> qubit_idx) & 1
Bit(state_idx, qubit_idx) == (state_idx \div Pow2(qubit_idx)) % 2

\* state_idx with bit qubit_idx inverted.
Flip(state_idx, qubit_idx) ==
    IF Bit(state_idx, qubit_idx) = 0
    THEN state_idx + Pow2(qubit_idx)
    ELSE state_idx - Pow2(qubit_idx)

\* The memory of the host: the largest qubit count whose 2^n complex amplitudes
\* (16 bytes each, and the Python lists built from them) it can hold.  The source
\* sets no limit of its own; above this count numpy raises MemoryError inside the
\* handler's try block.  A host with more memory computes the 2^25-entry state
\* instead; that run is not enumerated here.
HostQubits == 24

\* str(e) of the MemoryError numpy raises for an array it cannot allocate.
MemoryError == "Unable to allocate array"

\* Statevector.from_int(0, 2**num_qubits): amplitude 1 at index 0.  A state is
\* the integer amplitudes data[k + 1] = <<re, im>> of basis index k, over the
\* common denominator sqrt(2)^rt.
from_int(dim) ==
    [data |-> [k \in 1..dim |-> IF k = 1 THEN <<1, 0>> ELSE <<0, 0>>], rt |-> 0]

CAdd(a, b) == <<a[1] + b[1], a[2] + b[2]>>
CSub(a, b) == <<a[1] - b[1], a[2] - b[2]>>

\* The amplitude of basis index k.
Amp(state, k) == state.data[k + 1]

\* Mutant of apply_h: the 1/sqrt(2) factor of the Hadamard matrix left out.
apply_h_unnormalised(state, q) ==
    [data |-> [i \in 1..Len(state.data) |->
                 IF Bit(i - 1, q) = 0
                 THEN CAdd(Amp(state, i - 1), Amp(state, Flip(i - 1, q)))
                 ELSE CSub(Amp(state, Flip(i - 1, q)), Amp(state, i - 1))],
     rt |-> state.rt]

\* circ.h(q) under evolve: each pair (a, b) of amplitudes that differ in bit q
\* becomes ((a + b)/sqrt(2), (a - b)/sqrt(2)).
apply_h(state, q) ==
    [data |-> [i \in 1..Len(state.data) |->
                 IF Bit(i - 1, q) = 0
                 THEN CAdd(Amp(state, i - 1), Amp(state, Flip(i - 1, q)))
                 ELSE CSub(Amp(state, Flip(i - 1, q)), Amp(state, i - 1))],
     rt |-> state.rt + 1]

\* Mutant of apply_x: the amplitudes stay where they are.
apply_x_unmoved(state, q) == state

\* circ.x(q) under evolve: the amplitudes of each pair that differ in bit q are
\* exchanged.
apply_x(state, q) ==
    [data |-> [i \in 1..Len(state.data) |-> Amp(state, Flip(i - 1, q))],
     rt |-> state.rt]

\* Mutant of apply_cx: control and target exchanged.
apply_cx_swapped(state, c, t) ==
    [data |-> [i \in 1..Len(state.data) |->
                 IF Bit(i - 1, t) = 1
                 THEN Amp(state, Flip(i - 1, c))
                 ELSE Amp(state, i - 1)],
     rt |-> state.rt]

\* circ.cx(c, t) under evolve: among the indices whose bit c is 1, the amplitudes
\* of each pair that differ in bit t are exchanged.
apply_cx(state, c, t) ==
    [data |-> [i \in 1..Len(state.data) |->
                 IF Bit(i - 1, c) = 1
                 THEN Amp(state, Flip(i - 1, t))
                 ELSE Amp(state, i - 1)],
     rt |-> state.rt]

\* a * i^m
RECURSIVE TimesI(_, _)
TimesI(a, m) == IF m = 0 THEN a ELSE TimesI(<<-a[2], a[1]>>, m - 1)

\* a * exp(i * eighths * pi/4).  An even count is a power of i.  An odd count
\* needs (1 + i)/sqrt(2), which a state over one common power of sqrt(2) holds
\* only for a = 0; for any other amplitude there is no value, and the
\* evaluation stops.
TimesPhase(a, eighths) ==
    IF eighths % 2 = 0 THEN TimesI(a, (eighths \div 2) % 4)
    ELSE IF a = <<0, 0>> THEN a
    ELSE CHOOSE none \in {} : TRUE

\* circ.cp(theta, c, t) under evolve: the amplitudes of the indices whose bits c
\* and t are both 1 are multiplied by exp(i * theta).
apply_cp(state, eighths, c, t) ==
    [data |-> [i \in 1..Len(state.data) |->
                 IF Bit(i - 1, c) = 1 /\ Bit(i - 1, t) = 1
                 THEN TimesPhase(Amp(state, i - 1), eighths)
                 ELSE Amp(state, i - 1)],
     rt |-> state.rt]

\* circ.swap(a, b) under evolve: the amplitudes of each pair of indices that
\* differ in both bits a and b are exchanged.
apply_swap(state, a, b) ==
    [data |-> [i \in 1..Len(state.data) |->
                 IF Bit(i - 1, a) # Bit(i - 1, b)
                 THEN Amp(state, Flip(Flip(i - 1, a), b))
                 ELSE Amp(state, i - 1)],
     rt |-> state.rt]

\* One instruction of Statevector.evolve; qubit q is bit q of the basis index
\* (Qiskit's little-endian order).
apply_gate(state, g) ==
    CASE g.name = "h" -> apply_h(state, g.qubits[1])
      [] g.name = "x" -> apply_x(state, g.qubits[1])
      [] g.name = "cp" -> apply_cp(state, g.eighths, g.qubits[1], g.qubits[2])
      [] g.name = "swap" -> apply_swap(state, g.qubits[1], g.qubits[2])
      [] OTHER -> apply_cx(state, g.qubits[1], g.qubits[2])

\* initial_state.evolve(circuit): the instructions in circuit order.
RECURSIVE evolve(_, _)
evolve(state, data) ==
    IF data = <<>> THEN state ELSE evolve(apply_gate(state, Head(data)), Tail(data))

\* [[float(amplitude.real), float(amplitude.imag)] for amplitude in final_state.data]
statevector_data(state) ==
    [i \in 1..Len(state.data) |->
        <<Root2(state.data[i][1], state.rt), Root2(state.data[i][2], state.rt)>>]

\* Mutant of abs_squared: the amplitudes are read from the last index down.
abs_squared_reversed(state) ==
    [i \in 1..Len(state.data) |->
        LET a == state.data[Len(state.data) + 1 - i]
        IN  Dyadic(a[1] * a[1] + a[2] * a[2], state.rt)]

\* [float(abs(amplitude)**2) for amplitude in final_state.data]
abs_squared(state) ==
    [i \in 1..Len(state.data) |->
        Dyadic(state.data[i][1] * state.data[i][1] + state.data[i][2] * state.data[i][2],
               state.rt)]

\* Mutant of bit_sum: the test read as  x & (1 == 0), which is never true, so
\* every probability lands in the else branch (b = 1).
RECURSIVE bit_sum_precedence(_, _, _, _)
bit_sum_precedence(probabilities, qubit_idx, b, state_idx) ==
    IF state_idx >= Len(probabilities) THEN DyZero
    ELSE DyAdd(IF b = 1 THEN probabilities[state_idx + 1] ELSE DyZero,
               bit_sum_precedence(probabilities, qubit_idx, b, state_idx + 1))

\* The inner loop over state_idx: the sum of probabilities[state_idx] over the
\* indices whose bit qubit_idx is b, in index order.
RECURSIVE bit_sum(_, _, _, _)
bit_sum(probabilities, qubit_idx, b, state_idx) ==
    IF state_idx >= Len(probabilities) THEN DyZero
    ELSE DyAdd(IF Bit(state_idx, qubit_idx) = b
               THEN probabilities[state_idx + 1] ELSE DyZero,
               bit_sum(probabilities, qubit_idx, b, state_idx + 1))

\* Mutant of marginals: the qubit field counted from 1.
marginals_one_based(num_qubits, probabilities) ==
    [i \in 1..num_qubits |->
        Marginal(i, bit_sum(probabilities, i - 1, 0, 0),
                    bit_sum(probabilities, i - 1, 1, 0))]

\* Mutant of marginals: prob_1 += ... outside the else, so that it adds every
\* probability.
marginals_missing_else(num_qubits, probabilities) ==
    [i \in 1..num_qubits |->
        Marginal(i - 1, bit_sum(probabilities, i - 1, 0, 0), DySum(probabilities))]

\* The loop over qubit_idx in range(num_qubits) that fills marginal_probabilities.
marginals(num_qubits, probabilities) ==
    [i \in 1..num_qubits |->
        Marginal(i - 1, bit_sum(probabilities, i - 1, 0, 0),
                        bit_sum(probabilities, i - 1, 1, 0))]

\* circuit.size(): the number of instructions.
size(circ) == Len(circ.data)

\* circuit.depth(): each instruction lands one level above the deepest of the
\* qubits it touches; the depth is the deepest level.
RECURSIVE levels(_, _)
levels(data, lv) ==
    IF data = <<>> THEN lv
    ELSE LET g == Head(data)
             qs == {g.qubits[i] : i \in 1..Len(g.qubits)}
             top == CHOOSE m \in {lv[q] : q \in qs} : \A q \in qs : lv[q] <= m
         IN  levels(Tail(data), [q \in DOMAIN lv |-> IF q \in qs THEN top + 1 ELSE lv[q]])

depth(circ) ==
    LET lv == levels(circ.data, [q \in 0..(circ.num_qubits - 1) |-> 0])
    IN  CHOOSE m \in {lv[q] : q \in DOMAIN lv} \cup {0} :
            \A q \in DOMAIN lv : lv[q] <= m

\* The success dictionary of the Qiskit path (quantum_backend.py).
qb_result(circ, state) ==
    CHOOSE result \in
        {[status |-> 200,
          success |-> TRUE,
          statevector |-> statevector_data(state),
          num_qubits |-> circ.num_qubits,
          probabilities |-> probabilities,
          marginal_probabilities |-> marginals(circ.num_qubits, probabilities),
          circuit_depth |-> depth(circ),
          circuit_size |-> size(circ)] : probabilities \in {abs_squared(state)}} : TRUE

\* The success dictionary of simulate_with_qiskit (quantum_backend_docker.py).
docker_qiskit_result(circ, state) ==
    CHOOSE result \in
        {[status |-> 200,
          success |-> TRUE,
          statevector |-> statevector_data(state),
          num_qubits |-> circ.num_qubits,
          probabilities |-> probabilities,
          marginal_probabilities |-> marginals(circ.num_qubits, probabilities),
          circuit_depth |-> depth(circ),
          circuit_size |-> size(circ),
          simulation_type |-> "qiskit"] : probabilities \in {abs_squared(state)}} : TRUE

\* jsonify({'success': False, 'error': ...}), status
Failure(status, error) == [status |-> status, success |-> FALSE, error |-> error]

\* The message both Qiskit paths use when safe_locals holds no QuantumCircuit.
no_circuit_found == "No QuantumCircuit found in the provided code"

\* quantum_backend.py: the route returns the message itself with status 400.
qb_no_circuit == Failure(400, no_circuit_found)

\* quantum_backend_docker.py: simulate_with_qiskit raises ValueError(message);
\* the route's except clause answers it with status 500 and its own prefix.
docker_no_circuit == Failure(500, "Simulation error: " \o no_circuit_found)

(* ------------------------------------------------------ the /simulate route *)

Backends == {"quantum_backend", "quantum_backend_simple", "quantum_backend_docker"}

\* quantum_backend.py imports qiskit at its top; quantum_backend_simple.py never
\* does; quantum_backend_docker.py sets the flag in its try/except ImportError.
Init ==
    /\ backend \in Backends
    /\ QISKIT_AVAILABLE \in BOOLEAN
    /\ backend = "quantum_backend" => QISKIT_AVAILABLE
    /\ backend = "quantum_backend_simple" => ~QISKIT_AVAILABLE
    /\ QuantumCircuit = qiskit_QuantumCircuit
    /\ pc = "idle"
    /\ request = None
    /\ circuit = None
    /\ final_state = None
    /\ response = None

\* data = request.get_json(); the check for the qiskit_code key (the same lines
\* in the three files).
Accept(body) ==
    /\ request' = body
    /\ IF ~body.parses
       THEN \* get_json raises BadRequest inside the try block
            /\ response' = Failure(500, "Simulation error: 400 Bad Request")
            /\ pc' = "done"
       ELSE IF ~Truthy(body) \/ "qiskit_code" \notin body.members
       THEN /\ response' = Failure(400, "Missing qiskit_code parameter")
            /\ pc' = "done"
       ELSE IF body.type # "dict"
       THEN \* data['qiskit_code'] raises TypeError on a list
            /\ response' = Failure(500, "Simulation error: list indices must be integers or slices, not str")
            /\ pc' = "done"
       ELSE /\ response' = None
            /\ pc' = "code"

\* The bodies posted: a named program, any circuit of up to MaxQubits qubits and
\* MaxGates gate lines under one of the comment lines, or a body without code.
Receive ==
    /\ pc = "idle"
    /\ \/ \E p \in NamedPrograms : Accept(WithCode(p))
       \/ \E n \in 1..MaxQubits, h \in EnumHeaders, m \in 0..MaxGates :
             \E ops \in [1..m -> Gates(n)] : Accept(WithCode(Circ(h, n, ops)))
       \/ \E body \in BodiesWithoutCode : Accept(body)
    /\ UNCHANGED <<backend, QISKIT_AVAILABLE, QuantumCircuit, circuit, final_state>>

\* quantum_backend.py: exec and the search for the circuit.
qb_Execute ==
    /\ pc = "code"
    /\ backend = "quantum_backend"
    /\ Terminates(request.program)
    /\ LET r == exec(request.program, safe_globals(QuantumCircuit))
           c == find_circuit(r.safe_locals)
       IN  /\ QuantumCircuit' = r.QuantumCircuit
           /\ IF r.raised
              THEN /\ response' = Failure(500, "Simulation error: " \o r.error)
                   /\ pc' = "done"
                   /\ UNCHANGED circuit
              ELSE IF c = None
              THEN /\ response' = qb_no_circuit
                   /\ pc' = "done"
                   /\ UNCHANGED circuit
              ELSE /\ circuit' = c
                   /\ pc' = "simulate"
                   /\ UNCHANGED response
    /\ UNCHANGED <<backend, QISKIT_AVAILABLE, request, final_state>>

\* quantum_backend.py: Statevector.from_int and evolve.
qb_Simulate ==
    /\ pc = "simulate"
    /\ backend = "quantum_backend"
    /\ IF circuit.num_qubits > HostQubits
       THEN /\ response' = Failure(500, "Simulation error: " \o MemoryError)
            /\ pc' = "done"
            /\ UNCHANGED final_state
       ELSE /\ final_state' = evolve(from_int(Pow2(circuit.num_qubits)), circuit.data)
            /\ pc' = "assemble"
            /\ UNCHANGED response
    /\ UNCHANGED <<backend, QISKIT_AVAILABLE, QuantumCircuit, request, circuit>>

\* quantum_backend.py: the lists derived from final_state and the response.
qb_Respond ==
    /\ pc = "assemble"
    /\ backend = "quantum_backend"
    /\ response' = qb_result(circuit, final_state)
    /\ pc' = "done"
    /\ UNCHANGED <<backend, QISKIT_AVAILABLE, QuantumCircuit, request, circuit, final_state>>

\* quantum_backend_simple.py: the classifier and simulate_simple_circuit.
simple_Match ==
    /\ pc = "code"
    /\ backend = "quantum_backend_simple"
    /\ response' = simple_simulate_simple_circuit(
                       simple_classify(lower(SourceText(request.program))))
    /\ pc' = "done"
    /\ UNCHANGED <<backend, QISKIT_AVAILABLE, QuantumCircuit, request, circuit, final_state>>

\* Mutant of docker_Execute: what the program raises is answered by the pattern
\* route instead of the except clause.
docker_Execute_fallback ==
    /\ pc = "code"
    /\ backend = "quantum_backend_docker"
    /\ QISKIT_AVAILABLE
    /\ Terminates(request.program)
    /\ LET r == exec(request.program, safe_globals(QuantumCircuit))
           c == find_circuit(r.safe_locals)
       IN  /\ QuantumCircuit' = r.QuantumCircuit
           /\ IF r.raised
              THEN /\ response' = docker_simulate_simple_circuit(
                                      SourceText(request.program))
                   /\ pc' = "done"
                   /\ UNCHANGED circuit
              ELSE IF c = None
              THEN /\ response' = docker_no_circuit
                   /\ pc' = "done"
                   /\ UNCHANGED circuit
              ELSE /\ circuit' = c
                   /\ pc' = "simulate"
                   /\ UNCHANGED response
    /\ UNCHANGED <<backend, QISKIT_AVAILABLE, request, final_state>>

\* quantum_backend_docker.py, QISKIT_AVAILABLE: simulate_with_qiskit up to the
\* circuit; what it raises is answered by the route's except clause.
docker_Execute ==
    /\ pc = "code"
    /\ backend = "quantum_backend_docker"
    /\ QISKIT_AVAILABLE
    /\ Terminates(request.program)
    /\ LET r == exec(request.program, safe_globals(QuantumCircuit))
           c == find_circuit(r.safe_locals)
       IN  /\ QuantumCircuit' = r.QuantumCircuit
           /\ IF r.raised
              THEN /\ response' = Failure(500, "Simulation error: " \o r.error)
                   /\ pc' = "done"
                   /\ UNCHANGED circuit
              ELSE IF c = None
              THEN /\ response' = docker_no_circuit
                   /\ pc' = "done"
                   /\ UNCHANGED circuit
              ELSE /\ circuit' = c
                   /\ pc' = "simulate"
                   /\ UNCHANGED response
    /\ UNCHANGED <<backend, QISKIT_AVAILABLE, request, final_state>>

\* simulate_with_qiskit: Statevector.from_int and evolve.
docker_Simulate ==
    /\ pc = "simulate"
    /\ backend = "quantum_backend_docker"
    /\ IF circuit.num_qubits > HostQubits
       THEN /\ response' = Failure(500, "Simulation error: " \o MemoryError)
            /\ pc' = "done"
            /\ UNCHANGED final_state
       ELSE /\ final_state' = evolve(from_int(Pow2(circuit.num_qubits)), circuit.data)
            /\ pc' = "assemble"
            /\ UNCHANGED response
    /\ UNCHANGED <<backend, QISKIT_AVAILABLE, QuantumCircuit, request, circuit>>

\* simulate_with_qiskit: the lists derived from final_state; jsonify(result).
docker_Respond ==
    /\ pc = "assemble"
    /\ backend = "quantum_backend_docker"
    /\ response' = docker_qiskit_result(circuit, final_state)
    /\ pc' = "done"
    /\ UNCHANGED <<backend, QISKIT_AVAILABLE, QuantumCircuit, request, circuit, final_state>>

\* quantum_backend_docker.py, not QISKIT_AVAILABLE: simulate_simple_circuit.
docker_Simple ==
    /\ pc = "code"
    /\ backend = "quantum_backend_docker"
    /\ ~QISKIT_AVAILABLE
    /\ response' = docker_simulate_simple_circuit(SourceText(request.program))
    /\ pc' = "done"
    /\ UNCHANGED <<backend, QISKIT_AVAILABLE, QuantumCircuit, request, circuit, final_state>>

\* The route returns the response; the request's locals are gone and the worker
\* waits for the next request.
Reply ==
    /\ pc = "done"
    /\ pc' = "idle"
    /\ request' = None
    /\ circuit' = None
    /\ final_state' = None
    /\ response' = None
    /\ UNCHANGED <<backend, QISKIT_AVAILABLE, QuantumCircuit>>

Next ==
    \/ Receive
    \/ qb_Execute
    \/ qb_Simulate
    \/ qb_Respond
    \/ simple_Match
    \/ docker_Execute
    \/ docker_Simulate
    \/ docker_Respond
    \/ docker_Simple
    \/ Reply

Spec == Init /\ [][Next]_vars

\* A request whose program writes to the class it is handed.
ReceivePatch ==
    /\ pc = "idle"
    /\ Accept(WithCode(PatchProgram))
    /\ UNCHANGED <<backend, QISKIT_AVAILABLE, QuantumCircuit, circuit, final_state>>

\* The server when such programs are among the requests.
NextShared == Next \/ ReceivePatch

SpecShared == Init /\ [][NextShared]_vars

\* A request whose program never ends.
ReceiveLoop ==
    /\ pc = "idle"
    /\ Accept(WithCode(LoopProgram))
    /\ UNCHANGED <<backend, QISKIT_AVAILABLE, QuantumCircuit, circuit, final_state>>

\* exec inside the Qiskit paths, running the loop: the test of the while
\* statement, its body, the test again.  Neither route sets a time limit and
\* nothing interrupts exec.
exec_While ==
    /\ backend = "quantum_backend"
       \/ (backend = "quantum_backend_docker" /\ QISKIT_AVAILABLE)
    /\ pc \in {"code", "while", "pass"}
    /\ ~Terminates(request.program)
    /\ pc' = IF pc = "while" THEN "pass" ELSE "while"
    /\ UNCHANGED <<backend, QISKIT_AVAILABLE, QuantumCircuit, request, circuit,
                   final_state, response>>

\* The steps of a handler, from the body it accepted to its return.
Handler ==
    \/ qb_Execute
    \/ qb_Simulate
    \/ qb_Respond
    \/ simple_Match
    \/ docker_Execute
    \/ docker_Simulate
    \/ docker_Respond
    \/ docker_Simple
    \/ exec_While
    \/ Reply

\* The server when such programs are among the requests.
NextLive == Next \/ ReceiveLoop \/ exec_While

\* The worker thread that runs a handler is always scheduled again: a handler
\* step that can be taken is eventually taken.  Clients need not send requests.
SpecLive == Init /\ [][NextLive]_vars /\ WF_vars(Handler)

(* ================================================================ claims *)

\* A response has been built for the request in hand.
Answered == pc = "done"

\* ... and the request carried a qiskit_code text.
AnsweredCode == Answered /\ HasCode(request)

\* ... and the response is a success response.
Succeeded == AnsweredCode /\ response.success

\* The pattern-matching variants: quantum_backend_simple, and
\* quantum_backend_docker without Qiskit.
PatternBackend ==
    \/ backend = "quantum_backend_simple"
    \/ (backend = "quantum_backend_docker" /\ ~QISKIT_AVAILABLE)

\* The request's text declares a circuit (QuantumCircuit(n) and gate lines).
DeclaresCircuit == request.program.kind = "circuit"

\* A gate line of the program names a qubit index >= n, or a controlled gate
\* whose control is its target.
IllFormed(p) ==
    /\ p.kind = "circuit"
    /\ \E i \in 1..Len(p.ops) :
          \/ \E j \in 1..Len(p.ops[i].qubits) : p.ops[i].qubits[j] >= p.n
          \/ (p.ops[i].name = "cx" /\ p.ops[i].qubits[1] = p.ops[i].qubits[2])

\* The response carries a statevector.
HasStatevector == "statevector" \in DOMAIN response

\* The GHZ texts of the tests and of /example_circuits.
GHZTexts ==
    {Circ("# GHZ State", 3, GHZOps), Circ("# GHZ State (3-qubit entanglement)", 3, GHZOps)}

\* C1 (as claimed): the GHZ text of the tests and of /example_circuits is
\* answered, by every backend variant, with success, num_qubits = 3,
\* probabilities 1/2 at indices 0 and 7 and 0 at indices 1..6, and marginals
\* 1/2, 1/2 for each of the three qubits.
C1_GHZ ==
    (AnsweredCode /\ request.program \in GHZTexts) =>
        /\ response.success
        /\ response.num_qubits = 3
        /\ response.probabilities =
             <<DyHalf, DyZero, DyZero, DyZero, DyZero, DyZero, DyZero, DyHalf>>
        /\ response.marginal_probabilities =
             <<Marginal(0, DyHalf, DyHalf), Marginal(1, DyHalf, DyHalf),
               Marginal(2, DyHalf, DyHalf)>>

\* The Bell circuit as the tests and /example_circuits submit it, and as bare
\* code without a comment line.
BellTexts ==
    {Circ("# Bell State", 2, BellOps), Circ("# Bell State (Entanglement)", 2, BellOps),
     Circ("", 2, BellOps)}

C3_Rejection ==
    (request # None /\ HasCode(request) /\ IllFormed(request.program)) =>
        /\ final_state = None
        /\ Answered => (/\ ~response.success
                        /\ "error" \in DOMAIN response
                        /\ ~HasStatevector)

\* What the backend in hand cannot simulate: text that is no program binding a
\* well-formed circuit, and, for the pattern-matching variants, a text their
\* classifier does not recognise (its else branch).
NotSimulable ==
    \/ ~DeclaresCircuit
    \/ IllFormed(request.program)
    \/ (backend = "quantum_backend_simple"
        /\ simple_classify(lower(SourceText(request.program))) = "default")
    \/ (backend = "quantum_backend_docker" /\ ~QISKIT_AVAILABLE
        /\ docker_classify(lower(SourceText(request.program))) = "default")

\* C4 (as claimed): a text that describes no circuit the backend can simulate
\* is answered with status >= 400, success = false and an error string.
C4_NoSilentResult ==
    (AnsweredCode /\ NotSimulable) =>
        /\ response.status >= 400
        /\ ~response.success
        /\ "error" \in DOMAIN response

\* C5 (as claimed): every success response reports the qubit count the
\* submitted circuit declares.
C5_QubitCount ==
    (Succeeded /\ DeclaresCircuit) => response.num_qubits = request.program.n

\* A success response to any body.
Success == Answered /\ response.success

\* The basis indices of an n-qubit register whose bit q is b, bit q of k being
\* the digit of weight 2^q of k.
IndicesWithBit(n, q, b) ==
    {k \in 0..(Pow2(n) - 1) : (k % Pow2(q + 1) >= Pow2(q)) <=> (b = 1)}

\* The sum of probs[k + 1] over the basis indices k in S.
RECURSIVE SumOver(_, _)
SumOver(S, probs) ==
    IF S = {} THEN DyZero
    ELSE LET k == CHOOSE x \in S : TRUE
         IN  DyAdd(probs[k + 1], SumOver(S \ {k}, probs))

\* C6: in every success response statevector and probabilities have
\* 2^num_qubits entries, and marginal_probabilities has num_qubits entries whose
\* qubit fields are 0, 1, ..., num_qubits - 1 in that order.
C6_Shape ==
    Success =>
        /\ Len(response.statevector) = Pow2(response.num_qubits)
        /\ Len(response.probabilities) = Pow2(response.num_qubits)
        /\ Len(response.marginal_probabilities) = response.num_qubits
        /\ \A i \in 1..Len(response.marginal_probabilities) :
              response.marginal_probabilities[i].qubit = i - 1

\* C6 witness: a simulated two-gate circuit on two qubits has been answered.
C6_Witness ==
    /\ Success
    /\ backend = "quantum_backend"
    /\ response.num_qubits = 2
    /\ Len(request.program.ops) = 2
    /\ Len(response.statevector) = 4

\* C7: in every success response and for every qubit q, prob_0 is the sum of
\* probabilities[k] over the indices k whose bit q is 0 and prob_1 the sum over
\* those whose bit q is 1 (least-significant bit = qubit 0).
C7_Marginals ==
    Success =>
        \A i \in 1..Len(response.marginal_probabilities) :
            LET m == response.marginal_probabilities[i]
                n == response.num_qubits
            IN  /\ m.prob_0 = SumOver(IndicesWithBit(n, m.qubit, 0), response.probabilities)
                /\ m.prob_1 = SumOver(IndicesWithBit(n, m.qubit, 1), response.probabilities)

\* C7 witness: a simulated state whose two qubits have different marginals
\* (qubit 0 is 1 for certain, qubit 1 is 0 for certain) has been answered, so
\* the bit order decides the answer.
C7_Witness ==
    /\ Success
    /\ ~PatternBackend
    /\ response.num_qubits = 2
    /\ response.marginal_probabilities =
         <<Marginal(0, DyZero, DyOne), Marginal(1, DyOne, DyZero)>>
    /\ response.probabilities = <<DyZero, DyOne, DyZero, DyZero>>

\* C8: in every success response the probabilities are non-negative and sum
\* to 1.
C8_Norm ==
    Success =>
        /\ \A i \in 1..Len(response.probabilities) : response.probabilities[i].num >= 0
        /\ DySum(response.probabilities) = DyOne

\* C8 witness: a simulated state with four equal probabilities (two Hadamard
\* gates) has been answered.
C8_Witness ==
    /\ Success
    /\ ~PatternBackend
    /\ response.probabilities = [i \in 1..4 |-> Dyadic(1, 2)]

\* C9: in every success response, prob_0 + prob_1 = 1 for every entry of
\* marginal_probabilities.
C9_MarginalSum ==
    Success =>
        \A i \in 1..Len(response.marginal_probabilities) :
            DyAdd(response.marginal_probabilities[i].prob_0,
                  response.marginal_probabilities[i].prob_1) = DyOne

\* C9 witness: a simulated state with one qubit certain and one qubit in equal
\* superposition has been answered.
C9_Witness ==
    /\ Success
    /\ ~PatternBackend
    /\ response.num_qubits = 2
    /\ \E i, j \in 1..2 :
          /\ response.marginal_probabilities[i].prob_0 = DyHalf
          /\ response.marginal_probabilities[j].prob_1 = DyOne

\* Gate lines i and j of a program touch a common qubit.
Share(ops, i, j) ==
    \E a \in 1..Len(ops[i].qubits), b \in 1..Len(ops[j].qubits) :
        ops[i].qubits[a] = ops[j].qubits[b]

\* The length of the longest chain of operations ending in operation i in which
\* each operation shares a qubit with the one before it.
RECURSIVE ChainTo(_, _)
ChainTo(ops, i) ==
    LET before == {j \in 1..(i - 1) : Share(ops, i, j)}
        lens == {ChainTo(ops, j) : j \in before}
    IN  IF before = {} THEN 1
        ELSE 1 + (CHOOSE m \in lens : \A x \in lens : x <= m)

LongestChain(ops) ==
    LET lens == {ChainTo(ops, i) : i \in 1..Len(ops)}
    IN  IF lens = {} THEN 0 ELSE CHOOSE m \in lens : \A x \in lens : x <= m

\* C10 (as claimed): in every success response circuit_size is the number of
\* gate operations of the submitted circuit and circuit_depth the length of its
\* longest chain of operations sharing qubits.
C10_Metrics ==
    (Succeeded /\ DeclaresCircuit) =>
        /\ response.circuit_size = Len(request.program.ops)
        /\ response.circuit_depth = LongestChain(request.program.ops)

\* The state |0...0> on n qubits as the response writes it: [1, 0] at index 0
\* and [0, 0] at every other index.
GroundStatevector(n) ==
    [i \in 1..Pow2(n) |-> IF i = 1 THEN <<R1, R0>> ELSE <<R0, R0>>]

\* C11 (as claimed): a circuit on n >= 1 qubits with an empty operation list is
\* answered with success and a statevector of 2^n entries, [1, 0] at index 0 and
\* [0, 0] elsewhere.
C11_Identity ==
    (/\ AnsweredCode
     /\ DeclaresCircuit
     /\ request.program.n <= max_qubits
     /\ request.program.ops = <<>>) =>
        /\ response.success
        /\ response.statevector = GroundStatevector(request.program.n)

\* The handler is about to allocate the statevector: the next statement is
\* Statevector.from_int(0, 2**num_qubits).
AtAllocation == pc = "simulate"

\* C12 (as claimed): a circuit of more than max_qubits qubits is answered with a
\* failure response, and no request reaches the allocation of the statevector
\* with a qubit count above max_qubits.
C12_Admission ==
    /\ AtAllocation => circuit.num_qubits <= max_qubits
    /\ (AnsweredCode /\ DeclaresCircuit /\ request.program.n > max_qubits) =>
           ~response.success

\* C13 (as claimed): a request whose body is empty or has no qiskit_code key is
\* answered with status 400, success = false and the error 'Missing qiskit_code
\* parameter', and no code is executed, no pattern matched and no state
\* simulated for it, in each of the three backends.
C13_MissingInput ==
    (request # None /\ ~HasCode(request)) =>
        /\ pc = "done"
        /\ circuit = None
        /\ final_state = None
        /\ response = Failure(400, "Missing qiskit_code parameter")

\* What a server that has served no request before answers to the program p:
\* the handler of the backend in hand run from its entry to its return, with
\* the class as imported.
AloneResponse(p) ==
    IF backend = "quantum_backend_simple"
    THEN simple_simulate_simple_circuit(simple_classify(lower(SourceText(p))))
    ELSE IF backend = "quantum_backend_docker" /\ ~QISKIT_AVAILABLE
    THEN docker_simulate_simple_circuit(SourceText(p))
    ELSE LET r == exec(p, safe_globals(qiskit_QuantumCircuit))
             c == find_circuit(r.safe_locals)
         IN  IF r.raised THEN Failure(500, "Simulation error: " \o r.error)
             ELSE IF c = None
             THEN IF backend = "quantum_backend"
                  THEN qb_no_circuit
                  ELSE docker_no_circuit
             ELSE IF c.num_qubits > HostQubits
             THEN Failure(500, "Simulation error: " \o MemoryError)
             ELSE LET state == evolve(from_int(Pow2(c.num_qubits)), c.data)
                  IN  IF backend = "quantum_backend"
                      THEN qb_result(c, state)
                      ELSE docker_qiskit_result(c, state)

\* C14 (as claimed): whatever requests the server has served before, the
\* response to a request is the one the same body gets from a server that
\* serves it alone: a function of the body and of QISKIT_AVAILABLE.
C14_Isolation ==
    AnsweredCode => response = AloneResponse(request.program)

\* The 1-qubit circuit [X(0)] as test_simple_backend.py and /example_circuits
\* submit it, and as bare code without a comment line.
XGateTexts ==
    {Circ("# X Gate", 1, XGateOps), Circ("# Simple X gate (bit flip)", 1, XGateOps),
     Circ("", 1, XGateOps)}

SuperpositionTexts ==
    {Circ("# Superposition", 1, SuperpositionOps),
     Circ("# Single qubit superposition", 1, SuperpositionOps),
     Circ("", 1, SuperpositionOps)}

C17_ProbabilitiesFollow ==
    Success =>
        /\ Len(response.probabilities) = Len(response.statevector)
        /\ \A i \in 1..Len(response.statevector) :
              response.probabilities[i] =
                  DyAdd(Sq(response.statevector[i][1]), Sq(response.statevector[i][2]))

\* C17 witness: the Qiskit path of quantum_backend_docker has answered a 2-qubit
\* circuit whose whole probability sits at index 1 (an X gate on qubit 0).
C17_Witness ==
    /\ Success
    /\ backend = "quantum_backend_docker"
    /\ QISKIT_AVAILABLE
    /\ response.statevector = <<(<<R0, R0>>), (<<R1, R0>>), (<<R0, R0>>), (<<R0, R0>>)>>
    /\ response.probabilities = <<DyZero, DyOne, DyZero, DyZero>>

\* C18 (as claimed): for every text, the classifier of quantum_backend_simple
\* and the classifier of quantum_backend_docker's fallback choose the same
\* circuit type, and the two routes return the same statevector, num_qubits and
\* marginals.
C18_ClassifiersAgree ==
    (AnsweredCode /\ PatternBackend) =>
        LET qiskit_code == SourceText(request.program)
            s == simple_simulate_simple_circuit(simple_classify(lower(qiskit_code)))
            d == docker_simulate_simple_circuit(qiskit_code)
        IN  /\ simple_classify(lower(qiskit_code)) = docker_classify(lower(qiskit_code))
            /\ s.statevector = d.statevector
            /\ s.num_qubits = d.num_qubits
            /\ s.marginal_probabilities = d.marginal_probabilities

\* The code string /example_circuits of the backend in hand keeps under a name.
Example(name) ==
    CASE name = "bell_state" -> Circ("# Bell State (Entanglement)", 2, BellOps)
      [] name = "ghz_state" -> Circ("# GHZ State (3-qubit entanglement)", 3, GHZOps)
      [] name = "superposition" -> Circ("# Single qubit superposition", 1, SuperpositionOps)
      [] name = "x_gate" -> Circ("# Simple X gate (bit flip)", 1, XGateOps)
      [] name = "quantum_fourier_transform" ->
           IF backend = "quantum_backend" THEN QFTProgram ELSE QFTImportProgram

\* The names /example_circuits of the backend in hand returns: four everywhere,
\* and quantum_fourier_transform in quantum_backend and, when QISKIT_AVAILABLE,
\* in quantum_backend_docker.
ExampleNames ==
    {"bell_state", "ghz_state", "superposition", "x_gate"}
    \cup (IF backend = "quantum_backend"
             \/ (backend = "quantum_backend_docker" /\ QISKIT_AVAILABLE)
          THEN {"quantum_fourier_transform"} ELSE {})

\* The response shows the state the example's name denotes.
Denotes(name) ==
    CASE name = "bell_state" ->
           /\ response.num_qubits = 2
           /\ response.probabilities = <<DyHalf, DyZero, DyZero, DyHalf>>
      [] name = "ghz_state" ->
           /\ response.num_qubits = 3
           /\ response.probabilities =
                <<DyHalf, DyZero, DyZero, DyZero, DyZero, DyZero, DyZero, DyHalf>>
      [] name = "superposition" ->
           /\ response.num_qubits = 1
           /\ response.probabilities = <<DyHalf, DyHalf>>
      [] name = "x_gate" ->
           /\ response.num_qubits = 1
           /\ response.probabilities = <<DyZero, DyOne>>
      [] name = "quantum_fourier_transform" ->
           response.num_qubits = 3

\* C19 (as claimed): every example /example_circuits of a backend variant
\* returns, posted unchanged to /simulate of the same variant, is answered with
\* success and the state its name denotes.
C19_ExamplesSimulable ==
    \A name \in ExampleNames :
        (AnsweredCode /\ request.program = Example(name)) =>
            /\ response.success
            /\ Denotes(name)

\* The response was built by the pattern route simulate_simple_circuit of
\* quantum_backend_docker.py: only its result carries circuit_type.
BuiltBySimple == "circuit_type" \in DOMAIN response

\* C20: in quantum_backend_docker a request with a qiskit_code key is handled by
\* simulate_with_qiskit alone when QISKIT_AVAILABLE (a failure is answered with
\* status 500 and success = false, never with a result of the pattern route),
\* and by simulate_simple_circuit alone when not (no program is executed and no
\* state evolved); a success response has simulation_type 'qiskit' exactly when
\* QISKIT_AVAILABLE.
C20_EngineSelection ==
    (backend = "quantum_backend_docker" /\ request # None /\ HasCode(request)) =>
        /\ ~QISKIT_AVAILABLE => (circuit = None /\ final_state = None)
        /\ Answered =>
             /\ QISKIT_AVAILABLE => ~BuiltBySimple
             /\ (QISKIT_AVAILABLE /\ ~response.success) => response.status = 500
             /\ ~QISKIT_AVAILABLE => BuiltBySimple
             /\ response.success =>
                  (response.simulation_type = "qiskit" <=> QISKIT_AVAILABLE)

\* C20 witness: with Qiskit available, quantum_backend_docker has answered
\* 'invalid python code' with the status 500 of the except clause.
C20_Witness ==
    /\ AnsweredCode
    /\ backend = "quantum_backend_docker"
    /\ QISKIT_AVAILABLE
    /\ request.program = InvalidProgram
    /\ response = Failure(500, "Simulation error: invalid syntax")

\* The request's program runs to its end without raising and leaves no
\* QuantumCircuit in safe_locals, in a variant that executes programs.
NoCircuitBound ==
    /\ request # None
    /\ HasCode(request)
    /\ ~PatternBackend
    /\ LET r == exec(request.program, safe_globals(qiskit_QuantumCircuit))
       IN  ~r.raised /\ find_circuit(r.safe_locals) = None

\* C21 (as claimed): in the Qiskit paths a program that runs without raising
\* and binds no QuantumCircuit is answered with success = false and an error
\* containing 'No QuantumCircuit found in the provided code', no statevector
\* is created for it, and quantum_backend and quantum_backend_docker answer it
\* with the same status and the same error text.
C21_NoCircuit ==
    NoCircuitBound =>
        /\ circuit = None
        /\ final_state = None
        /\ Answered =>
             /\ ~response.success
             /\ In(no_circuit_found, response.error)
             /\ ~HasStatevector
             /\ response \in {qb_no_circuit, docker_no_circuit}
             /\ qb_no_circuit.status = docker_no_circuit.status
             /\ qb_no_circuit.error = docker_no_circuit.error

\* C22 (as claimed): every request, whatever its body and the backend variant,
\* is eventually answered, and the answer carries a boolean success field;
\* submitted code cannot keep the handler from responding.
C22_Responds ==
    /\ [](Answered => ("success" \in DOMAIN response /\ response.success \in BOOLEAN))
    /\ (request # None) ~> Answered

====
